---- MODULE Spec2Model ----
(***************************************************************************)
(* Model of src/format_code.py: the Process Runner (get_env, run_command), *)
(* the Differential File Selector (get_modified_py_files), the four tool   *)
(* adapters and the Pipeline Orchestrator (format_code).                   *)
(*                                                                         *)
(* One run of format_code is one behaviour.  Every call of run_command is  *)
(* one step, so the order of the spawned child processes is visible.       *)
(***************************************************************************)
EXTENDS Integers, Sequences, FiniteSets, TLC

VARIABLES
    args,               \* argparse.Namespace: fast, dry, py, debug, filenames
    dir_paths,          \* second parameter of format_code
    os_environ,         \* os.environ of the parent process
    has_is_relative_to, \* whether pathlib.Path has is_relative_to (line 90/92)
    pc,                 \* position in format_code
    path_idx,           \* index of `path` in the loop of line 215
    branch_files,       \* locals of get_modified_py_files
    staged_files,
    unstaged_files,
    files,              \* local `files` of format_code
    fmt_idx,            \* number of formatters already run (loop of line 238)
    results,            \* result.code of every formatter run so far
    final_code,         \* local `final_code`
    returned,           \* return value of format_code, None until it returns
    runs,               \* every subprocess.run call: [cmd, env, started]
    diff_failed,        \* result.code of a git_diff call of the current
                        \* get_modified_py_files call was nonzero
    written,            \* tools that ran in a mode that rewrites files
    logger_level        \* LOGGER level

vars == << args, dir_paths, os_environ, has_is_relative_to, pc, path_idx,
           branch_files, staged_files, unstaged_files, files, fmt_idx,
           results, final_code, returned, runs, diff_failed, written,
           logger_level >>

(***************************************************************************)
(* Python values                                                           *)
(***************************************************************************)
None == "<None>"

\* truth value of an optional string: None and "" are falsy
Truthy(v) == v # None /\ v # ""

(***************************************************************************)
(* Bounds                                                                  *)
(***************************************************************************)
\* exit codes a tool may report: 0 .. MaxCode
MaxCode == 2

(***************************************************************************)
(* pathlib                                                                 *)
(***************************************************************************)
REPO_ROOT == "/repo"
APP_PATH == REPO_ROOT \o "/src"

CharAt(s, i) == SubSeq(s, i, i)

\* indices of the character ch in s
Positions(s, ch) == { i \in 1..Len(s) : CharAt(s, i) = ch }

Min(S) == CHOOSE x \in S : \A y \in S : x <= y
Max(S) == CHOOSE x \in S : \A y \in S : x >= y

\* the components of a path ("" first for an absolute path)
RECURSIVE Parts(_)
Parts(p) ==
    IF Positions(p, "/") = {} THEN << p >>
    ELSE LET i == Min(Positions(p, "/"))
         IN  << SubSeq(p, 1, i - 1) >> \o Parts(SubSeq(p, i + 1, Len(p)))

\* Path.__truediv__ with a relative right operand
JoinPath(root, file) == root \o "/" \o file

\* PurePath.suffix: from the last dot of the final component, unless that
\* dot is the first or the last character
Suffix(p) ==
    LET name == Parts(p)[Len(Parts(p))]
        dots == Positions(name, ".")
    IN  IF dots = {} THEN ""
        ELSE LET i == Max(dots)
             IN  IF 1 < i /\ i < Len(name) THEN SubSeq(name, i, Len(name))
                 ELSE ""

IsPrefixSeq(a, b) == Len(a) <= Len(b) /\ SubSeq(b, 1, Len(a)) = a

\* PurePath.is_relative_to: component-wise prefix
IsRelativeTo(p, d) == IsPrefixSeq(Parts(d), Parts(p))

\* str.startswith
StartsWith(s, prefix) == Len(prefix) <= Len(s) /\ SubSeq(s, 1, Len(prefix)) = prefix

(***************************************************************************)
(* The file system under REPO_ROOT                                         *)
(***************************************************************************)
\* paths that exist on disk
FS_EXISTING ==
    { "/repo/src/a.py", "/repo/src/pkg/b.py", "/repo/src/link.py",
      "/repo/src/notes.txt", "/repo/src2/foo.py", "/repo/other_module/foo.py",
      "/repo/src", "/repo/src/pkg", "/repo/src2", "/repo/other_module" }

\* symbolic links: link |-> target
FS_LINKS == [ p \in { "/repo/src/link.py" } |-> "/repo/src/pkg/b.py" ]

Exists(p) == p \in FS_EXISTING

\* Path.resolve
Resolve(p) == IF p \in DOMAIN FS_LINKS THEN FS_LINKS[p] ELSE p

(***************************************************************************)
(* Inputs of one run                                                       *)
(***************************************************************************)
\* values of --fast: absent, the empty string, a branch name
FastVals == { None, "", "main" }
\* values of py_version
PyVals == { None, "311" }
\* positional file arguments
FilenameLists == { << >>, << "b.py", "a.py" >> }
\* values of dir_paths: the list of line 255, and a list with a nested directory
DirPathLists == { << APP_PATH >>, << APP_PATH, APP_PATH \o "/pkg" >> }
\* os.environ when the process starts: LANG and PYTHONIOENCODING are set to
\* other values than the forced ones, LC_ALL is not set
AmbientEnvs ==
    { [ PATH |-> "/usr/bin", LANG |-> "fr_FR.ISO-8859-1",
        PYTHONIOENCODING |-> "latin-1" ] }
\* exit codes of a formatter
Codes == 0..MaxCode
\* what a git diff --name-only may print
DiffStdouts ==
    { "",
      "src/pkg/b.py\nsrc2/foo.py\nsrc/notes.txt\n",
      "src/pkg/b.py\nsrc/gone.py\nsrc/link.py\nother_module/foo.py\n" }
\* results of the git child process: a listing with exit code 0, or a fatal
\* error (unknown revision, not a repository: exit code 128) that prints
\* nothing on stdout
GitResults ==
    { [ code |-> 0, stdout |-> t ] : t \in DiffStdouts }
        \cup { [ code |-> 128, stdout |-> "" ] }

(***************************************************************************)
(* Process Runner                                                          *)
(***************************************************************************)
ForcedEnv ==
    [ PYTHONIOENCODING |-> "utf-8", LC_ALL |-> "C.UTF-8", LANG |-> "C.UTF-8" ]

\* get_env with dict.setdefault in place of assignment: a value of the
\* ambient environment wins over the forced one
get_env_setdefault(environ) ==
    [ child  |-> [ k \in (DOMAIN environ) \cup (DOMAIN ForcedEnv) |->
                     IF k \in DOMAIN environ THEN environ[k] ELSE ForcedEnv[k] ],
      parent |-> environ ]

\* get_env: child is the returned dict, parent is os.environ afterwards
get_env(environ) ==
    [ child  |-> [ k \in (DOMAIN environ) \cup (DOMAIN ForcedEnv) |->
                     IF k \in DOMAIN ForcedEnv THEN ForcedEnv[k] ELSE environ[k] ],
      parent |-> environ ]

\* the subprocess.run call of lines 58-67; started tells whether the child
\* process could be started
SubprocessRun(cmd, started) ==
    [ cmd |-> cmd, env |-> get_env(os_environ).child, started |-> started ]

\* run_command when the child starts and exits: a RunResult comes back
run_command(cmd) ==
    /\ runs' = Append(runs, SubprocessRun(cmd, TRUE))
    /\ os_environ' = get_env(os_environ).parent

\* run_command with the OSError caught and dropped: the caller goes on
spawn_fault_swallowed(cmd) ==
    /\ runs' = Append(runs, SubprocessRun(cmd, FALSE))
    /\ os_environ' = get_env(os_environ).parent
    /\ pc' = pc

\* run_command when subprocess.run raises (executable missing, permission
\* denied): no caller catches the exception, so it leaves format_code
spawn_fault(cmd) ==
    /\ runs' = Append(runs, SubprocessRun(cmd, FALSE))
    /\ os_environ' = get_env(os_environ).parent
    /\ pc' = "fault"

(***************************************************************************)
(* Differential File Selector                                              *)
(***************************************************************************)
\* str.splitlines for "\n"-terminated lines
RECURSIVE splitlines(_)
splitlines(text) ==
    IF text = "" THEN << >>
    ELSE IF Positions(text, "\n") = {} THEN << text >>
    ELSE LET i == Min(Positions(text, "\n"))
         IN  << SubSeq(text, 1, i - 1) >> \o splitlines(SubSeq(text, i + 1, Len(text)))

\* the options of the three git diff calls
git_diff_options(which) ==
    CASE which = "branch"   -> << "--name-only", args.fast >>
      [] which = "staged"   -> << "--name-only", "--cached" >>
      [] which = "unstaged" -> << "--name-only" >>

\* git_diff: the lines of stdout; result.code is not looked at
git_diff_lines(result) == splitlines(result.stdout)

Range(s) == { s[i] : i \in DOMAIN s }

\* the containment test of lines 89-94
InSubtree(abs_path, dir_path) ==
    IF has_is_relative_to
    THEN IsRelativeTo(abs_path, dir_path)
    ELSE StartsWith(Resolve(abs_path), Resolve(dir_path))

\* the test a candidate passes to be appended (lines 88-94)
Keep(file, dir_path) ==
    LET abs_path == JoinPath(REPO_ROOT, file)
    IN  /\ Suffix(abs_path) = ".py"
        /\ Exists(abs_path)
        /\ InSubtree(abs_path, dir_path)

\* the orders in which a set may be iterated
Orderings(S) ==
    { o \in [ 1..Cardinality(S) -> S ] : \A i, j \in DOMAIN o : o[i] = o[j] => i = j }

\* the lists get_modified_py_files may return for the three listings
modified_py_files(b, s, u, dir_path) ==
    LET all_files == Range(b \o s \o u)
        kept == { f \in all_files : Keep(f, dir_path) }
    IN  { [ i \in DOMAIN o |-> Resolve(JoinPath(REPO_ROOT, o[i])) ] : o \in Orderings(kept) }

(***************************************************************************)
(* Tool adapters                                                           *)
(***************************************************************************)
sys_executable == "python"

\* the list with black ahead of isort
formatters_black_first == << "autoflake", "black", "isort", "ruff" >>

\* the formatters list of lines 229-234
formatters == << "autoflake", "isort", "black", "ruff" >>

AutoflakeCmd(fs, dry_run) ==
    << sys_executable, "-m", "autoflake", "--remove-unused-variables",
       "--remove-all-unused-imports", "--recursive" >>
        \o (IF ~dry_run THEN << "--in-place" >> ELSE << >>)
        \o fs

IsortCmd(fs, dry_run, py_version) ==
    << sys_executable, "-m", "isort", "--profile", "black" >>
        \o (IF dry_run THEN << "--diff", "--check-only" >> ELSE << >>)
        \o (IF Truthy(py_version) THEN << "--py=" \o py_version >> ELSE << >>)
        \o fs

BlackCmd(fs, dry_run, py_version) ==
    << sys_executable, "-m", "black" >>
        \o (IF dry_run THEN << "--check" >> ELSE << >>)
        \o (IF Truthy(py_version) THEN << "--target-version=py" \o py_version >> ELSE << >>)
        \o fs

\* ruff with --fix whatever dry_run is
RuffCmd_always_fix(fs, dry_run) ==
    << sys_executable, "-m", "ruff", "check" >>
        \o (IF dry_run THEN << "--diff", "--fix" >> ELSE << "--fix", "--exit-zero" >>)
        \o fs

RuffCmd(fs, dry_run) ==
    << sys_executable, "-m", "ruff", "check" >>
        \o (IF dry_run THEN << "--diff" >> ELSE << "--fix", "--exit-zero" >>)
        \o fs

\* the command formatter.run builds
FormatterCmd(tool, fs, dry_run, py_version) ==
    CASE tool = "autoflake" -> AutoflakeCmd(fs, dry_run)
      [] tool = "isort"     -> IsortCmd(fs, dry_run, py_version)
      [] tool = "black"     -> BlackCmd(fs, dry_run, py_version)
      [] tool = "ruff"      -> RuffCmd(fs, dry_run)

\* whether the external tool rewrites the files it is given, by its flags
ToolWrites(tool, cmd) ==
    CASE tool = "autoflake" -> "--in-place" \in Range(cmd)
      [] tool = "isort"     -> Range(cmd) \cap { "--diff", "--check-only" } = {}
      [] tool = "black"     -> Range(cmd) \cap { "--check", "--diff" } = {}
      [] tool = "ruff"      -> "--fix" \in Range(cmd)

(***************************************************************************)
(* Pipeline Orchestrator: format_code                                      *)
(***************************************************************************)
Init ==
    /\ args \in [ fast : FastVals, dry : BOOLEAN, py : PyVals, debug : BOOLEAN,
                  filenames : FilenameLists ]
    /\ dir_paths \in DirPathLists
    /\ os_environ \in AmbientEnvs
    /\ has_is_relative_to \in BOOLEAN
    /\ pc = "start"
    /\ path_idx = 0
    /\ branch_files = << >>
    /\ staged_files = << >>
    /\ unstaged_files = << >>
    /\ files = << >>
    /\ fmt_idx = 0
    /\ results = << >>
    /\ final_code = 0
    /\ returned = None
    /\ runs = << >>
    /\ diff_failed = FALSE
    /\ written = {}
    /\ logger_level = "INFO"

\* lines 210-211
SetLevel == logger_level' = IF args.debug THEN "DEBUG" ELSE logger_level

\* the branches with explicit filenames tested ahead of --fast
file_source_filenames_first(a) ==
    IF a.filenames # << >> THEN "filenames"
    ELSE IF Truthy(a.fast) THEN "fast"
    ELSE "dir_paths"

\* the branch of lines 213-225 that resolves the file set
file_source(a) ==
    IF Truthy(a.fast) THEN "fast"
    ELSE IF a.filenames # << >> THEN "filenames"
    ELSE "dir_paths"

\* lines 213-215: --fast is given, the loop over dir_paths starts
EnterFastMode ==
    /\ pc = "start"
    /\ file_source(args) = "fast"
    /\ SetLevel
    /\ files' = << >>
    /\ path_idx' = 1
    /\ pc' = "diff_branch"
    /\ UNCHANGED << args, dir_paths, os_environ, has_is_relative_to, branch_files,
                    staged_files, unstaged_files, fmt_idx, results, final_code,
                    returned, runs, diff_failed, written >>

\* lines 222-223
UseFilenames ==
    /\ pc = "start"
    /\ file_source(args) = "filenames"
    /\ SetLevel
    /\ files' = args.filenames
    /\ pc' = "format"
    /\ UNCHANGED << args, dir_paths, os_environ, has_is_relative_to, path_idx,
                    branch_files, staged_files, unstaged_files, fmt_idx, results,
                    final_code, returned, runs, diff_failed, written >>

\* lines 224-225
UseDirPaths ==
    /\ pc = "start"
    /\ file_source(args) = "dir_paths"
    /\ SetLevel
    /\ files' = dir_paths
    /\ pc' = "format"
    /\ UNCHANGED << args, dir_paths, os_environ, has_is_relative_to, path_idx,
                    branch_files, staged_files, unstaged_files, fmt_idx, results,
                    final_code, returned, runs, diff_failed, written >>

\* one git_diff call of lines 77-79
GitDiff(which) ==
    /\ pc = "diff_" \o which
    /\ LET cmd == << "git", "diff" >> \o git_diff_options(which)
       IN  \/ /\ spawn_fault(cmd)
              /\ UNCHANGED << branch_files, staged_files, unstaged_files, diff_failed >>
           \/ \E result \in GitResults :
                /\ run_command(cmd)
                /\ diff_failed' = (diff_failed \/ result.code # 0)
                /\ CASE which = "branch" ->
                          /\ branch_files' = git_diff_lines(result)
                          /\ pc' = "diff_staged"
                          /\ UNCHANGED << staged_files, unstaged_files >>
                     [] which = "staged" ->
                          /\ staged_files' = git_diff_lines(result)
                          /\ pc' = "diff_unstaged"
                          /\ UNCHANGED << branch_files, unstaged_files >>
                     [] which = "unstaged" ->
                          /\ unstaged_files' = git_diff_lines(result)
                          /\ pc' = "select"
                          /\ UNCHANGED << branch_files, staged_files >>
    /\ UNCHANGED << args, dir_paths, has_is_relative_to, path_idx, files, fmt_idx,
                    results, final_code, returned, written, logger_level >>

\* no early return: an empty list goes on to the formatters
short_circuit_never(fs) == FALSE

\* line 218: `if not files`
short_circuit(fs) == fs = << >>

\* lines 81-96 and 216-220: the listings are filtered, the result is added
\* to files, and after the last path an empty list returns 0
SelectFiles ==
    /\ pc = "select"
    /\ \E python_files \in modified_py_files(branch_files, staged_files,
                                             unstaged_files, dir_paths[path_idx]) :
         /\ files' = files \o python_files
         /\ IF path_idx < Len(dir_paths)
            THEN /\ path_idx' = path_idx + 1
                 /\ pc' = "diff_branch"
                 /\ returned' = returned
            ELSE /\ path_idx' = path_idx
                 /\ IF short_circuit(files')
                    THEN pc' = "done" /\ returned' = 0
                    ELSE pc' = "format" /\ returned' = returned
    /\ branch_files' = << >>
    /\ staged_files' = << >>
    /\ unstaged_files' = << >>
    /\ diff_failed' = FALSE
    /\ UNCHANGED << args, dir_paths, os_environ, has_is_relative_to, fmt_idx,
                    results, final_code, runs, written, logger_level >>

\* the first nonzero code is kept
fold_code_first_wins(code, final) == IF final # 0 THEN final ELSE code

\* lines 247-248
fold_code(code, final) == IF code # 0 THEN code ELSE final

\* one iteration of the loop of lines 238-248
RunFormatter ==
    /\ pc = "format"
    /\ fmt_idx < Len(formatters)
    /\ LET tool == formatters[fmt_idx + 1]
           cmd  == FormatterCmd(tool, files, args.dry, args.py)
       IN  \/ /\ spawn_fault(cmd)
              /\ UNCHANGED << fmt_idx, results, final_code, written >>
           \/ \E code \in Codes :
                /\ run_command(cmd)
                /\ results' = Append(results, code)
                /\ final_code' = fold_code(code, final_code)
                /\ written' = IF ToolWrites(tool, cmd) THEN written \cup { tool }
                              ELSE written
                /\ fmt_idx' = fmt_idx + 1
                /\ pc' = pc
    /\ UNCHANGED << args, dir_paths, has_is_relative_to, path_idx, branch_files,
                    staged_files, unstaged_files, files, returned, diff_failed,
                    logger_level >>

\* lines 250-251
Return ==
    /\ pc = "format"
    /\ fmt_idx = Len(formatters)
    /\ returned' = final_code
    /\ pc' = "done"
    /\ UNCHANGED << args, dir_paths, os_environ, has_is_relative_to, path_idx,
                    branch_files, staged_files, unstaged_files, files, fmt_idx,
                    results, final_code, runs, diff_failed, written, logger_level >>

Next ==
    \/ EnterFastMode
    \/ UseFilenames
    \/ UseDirPaths
    \/ GitDiff("branch")
    \/ GitDiff("staged")
    \/ GitDiff("unstaged")
    \/ SelectFiles
    \/ RunFormatter
    \/ Return

Spec == Init /\ [][Next]_vars

\* the runs on an interpreter whose Path has is_relative_to (Python 3.9 on):
\* the except branch of lines 92-94 is never entered
InitIsRelativeTo == Init /\ has_is_relative_to
SpecIsRelativeTo == InitIsRelativeTo /\ [][Next]_vars

(***************************************************************************)
(* Properties                                                              *)
(***************************************************************************)
RECURSIVE LastNonzero(_)
\* the last nonzero element of a sequence of exit codes, 0 if there is none
LastNonzero(codes) ==
    IF codes = << >> THEN 0
    ELSE IF codes[Len(codes)] # 0 THEN codes[Len(codes)]
    ELSE LastNonzero(SubSeq(codes, 1, Len(codes) - 1))

NoDuplicates(seq) == \A i, j \in DOMAIN seq : seq[i] = seq[j] => i = j

IsAdapterRun(r) == r.cmd[1] = sys_executable
IsGitRun(r) == r.cmd[1] = "git"
IsStarted(r) == r.started

\* the subprocess.run calls made for formatters, and the tools they name
AdapterRuns == SelectSeq(runs, IsAdapterRun)
InvokedTools == [ i \in DOMAIN AdapterRuns |-> AdapterRuns[i].cmd[3] ]
GitRuns == SelectSeq(runs, IsGitRun)

FixedOrder == << "autoflake", "isort", "black", "ruff" >>

\* format_code has left the file-set resolution behind
Resolved == pc \in { "format", "done" }

\* the fast-mode early return of line 220
ShortCircuited == pc = "done" /\ fmt_idx = 0

\* C1: when all four adapters have reported an exit code and format_code
\* has returned, the returned code is the last nonzero code of the four, it
\* is 0 exactly when all four are 0, and it is one of the four codes.
C1_LastNonzeroWins ==
    (pc = "done" /\ Len(results) = 4) =>
        /\ returned = LastNonzero(results)
        /\ (returned = 0 <=> \A i \in DOMAIN results : results[i] = 0)
        /\ returned \in Range(results)

\* a run whose second adapter reports 2 and whose last adapter reports 1,
\* with a 0 in between: 1 is returned, neither 0, nor the first, nor the largest
C1_Witness ==
    pc = "done" /\ results = << 0, 2, 0, 1 >> /\ returned = 1

\* a run whose trailing adapters report 0 keeps the earlier nonzero code
C1_WitnessTrailingZero ==
    pc = "done" /\ results = << 0, 2, 0, 0 >> /\ returned = 2

\* C2: the adapters are invoked in the order autoflake, isort, black, ruff,
\* each at most once and none before its predecessor has reported; a run that
\* returns without the fast-mode early return has invoked all four, whatever
\* their exit codes were.
C2_FixedOrder ==
    /\ IsPrefixSeq(InvokedTools, FixedOrder)
    /\ pc = "format" => Len(InvokedTools) = Len(results) /\ fmt_idx = Len(results)
    /\ (pc = "done" /\ ~ShortCircuited) =>
           InvokedTools = FixedOrder /\ Len(results) = 4

\* a complete run in which the first three adapters all exit nonzero
C2_Witness ==
    /\ pc = "done"
    /\ InvokedTools = FixedOrder
    /\ results = << 1, 2, 1, 0 >>
    /\ args.debug /\ args.dry /\ args.py = "311"

\* C3: in fast mode, when the selection over all dir_paths is empty,
\* format_code returns 0 and no formatter is invoked.
C3_EmptyFastSelection ==
    (Truthy(args.fast) /\ Resolved /\ files = << >>) =>
        /\ pc = "done"
        /\ returned = 0
        /\ AdapterRuns = << >>
        /\ results = << >>

\* fast mode with explicit filenames, --dry and a version given, whose
\* selection is empty
C3_Witness ==
    /\ Truthy(args.fast) /\ args.filenames # << >> /\ args.dry /\ args.py = "311"
    /\ pc = "done" /\ files = << >> /\ returned = 0
    /\ Len(GitRuns) = 3 * Len(dir_paths)

\* the paths a git listing of the model can lead to
ListedLines == UNION { Range(splitlines(t)) : t \in DiffStdouts }
SelectorPaths == { Resolve(JoinPath(REPO_ROOT, f)) : f \in ListedLines }

\* C4: once the file set is resolved: with a fast-mode branch given it holds
\* only paths of the selector (three git diffs per directory were run and the
\* explicit filenames are not in it); else with explicit filenames it is that
\* list; else it is dir_paths; and git is run in fast mode only.
C4_Precedence ==
    Resolved =>
        IF Truthy(args.fast)
        THEN /\ Range(files) \subseteq SelectorPaths
             /\ Range(files) \cap Range(args.filenames) = {}
             /\ Len(GitRuns) = 3 * Len(dir_paths)
        ELSE /\ GitRuns = << >>
             /\ IF args.filenames # << >> THEN files = args.filenames
                ELSE files = dir_paths

\* fast mode with explicit filenames present and a nonempty selection
C4_Witness ==
    /\ args.fast = "main" /\ args.filenames = << "b.py", "a.py" >>
    /\ pc = "format" /\ files = << "/repo/src/pkg/b.py" >>

\* C5: a git diff that exits nonzero is a fault for format_code: a selection
\* in which one of the three diffs failed never ends with the early return
\* of 0.
C5_SelectStep ==
    (pc = "select" /\ diff_failed) => ~(pc' = "done" /\ returned' = 0)

C5_FailedDiffNeverShortCircuits == [][C5_SelectStep]_vars

\* C6: every file selected in fast mode lies, component by component, under
\* one of the managed directories.
C6_PathAwareContainment ==
    (Truthy(args.fast) /\ Resolved) =>
        \A f \in Range(files) : \E d \in Range(dir_paths) : IsRelativeTo(f, d)

\* C7: a subprocess.run call that cannot start its child is the last call of
\* the run and leaves format_code as a fault without a return value; it adds
\* no exit code to the results.
C7_SpawnFaultPropagates ==
    /\ \A i \in DOMAIN runs :
         ~runs[i].started => i = Len(runs) /\ pc = "fault" /\ returned = None
    /\ Len(results) = Len(SelectSeq(AdapterRuns, IsStarted))
    /\ final_code \in Range(results) \cup { 0 }

\* the third adapter cannot be started after the second reported 2
C7_Witness ==
    /\ pc = "fault"
    /\ InvokedTools = << "autoflake", "isort", "black" >>
    /\ results = << 0, 2 >>
    /\ final_code = 2
    /\ returned = None

AdapterFlags(r) == Range(r.cmd)

\* C8: with dry_run the commands carry no mutating flag (no --in-place, no
\* --fix; isort has --diff --check-only, black --check, ruff --diff) and no
\* tool rewrites a file; --in-place, --fix and --exit-zero appear only
\* without dry_run.
C8_DryRunNeverMutates ==
    /\ \A i \in DOMAIN AdapterRuns :
         LET flags == AdapterFlags(AdapterRuns[i])
             tool  == AdapterRuns[i].cmd[3]
         IN  /\ args.dry =>
                   /\ flags \cap { "--in-place", "--fix", "--exit-zero" } = {}
                   /\ tool = "isort" => { "--diff", "--check-only" } \subseteq flags
                   /\ tool = "black" => "--check" \in flags
                   /\ tool = "ruff" => "--diff" \in flags
             /\ flags \cap { "--in-place", "--fix", "--exit-zero" } # {} => ~args.dry
    /\ args.dry => written = {}

\* a complete dry run with a version hint
C8_Witness ==
    /\ args.dry /\ args.py = "311"
    /\ pc = "done" /\ InvokedTools = FixedOrder /\ written = {}

\* C9: every subprocess.run call gets the three forced variables and the
\* other ambient variables unchanged, and os.environ never changes.
C9_ChildEnv ==
    \A i \in DOMAIN runs :
        /\ runs[i].env["PYTHONIOENCODING"] = "utf-8"
        /\ runs[i].env["LC_ALL"] = "C.UTF-8"
        /\ runs[i].env["LANG"] = "C.UTF-8"
        /\ DOMAIN runs[i].env = (DOMAIN os_environ) \cup (DOMAIN ForcedEnv)
        /\ \A k \in (DOMAIN os_environ) \ (DOMAIN ForcedEnv) :
             runs[i].env[k] = os_environ[k]

C9_ForcedEnvironment == [] C9_ChildEnv /\ [][os_environ' = os_environ]_vars

\* three git diffs and four formatters were started under an ambient
\* environment that sets LANG to another value and does not set LC_ALL
C9_Witness ==
    /\ os_environ["LANG"] = "fr_FR.ISO-8859-1" /\ "LC_ALL" \notin DOMAIN os_environ
    /\ pc = "done" /\ Len(GitRuns) = 3 /\ InvokedTools = FixedOrder
    /\ \A i \in DOMAIN runs : runs[i].started

\* C10: the step that filters the three listings for a directory adds exactly
\* the listed .py files that exist and lie under the directory, each once,
\* and the list handed to the formatters holds no path twice.
C10_SelectStep ==
    pc = "select" =>
        LET new    == SubSeq(files', Len(files) + 1, Len(files'))
            listed == Range(branch_files \o staged_files \o unstaged_files)
            dir    == dir_paths[path_idx]
            wanted == { f \in listed :
                          LET abs_path == JoinPath(REPO_ROOT, f)
                          IN  /\ Suffix(abs_path) = ".py"
                              /\ Exists(abs_path)
                              /\ IsRelativeTo(abs_path, dir) }
        IN  /\ Range(new) = { Resolve(JoinPath(REPO_ROOT, f)) : f \in wanted }
            /\ NoDuplicates(new)
            /\ pc' = "format" => NoDuplicates(files')

C10_ExactUnionNoDuplicates == [][C10_SelectStep]_vars

====
